---- MODULE Spec2Model ----
(***************************************************************************)
(* A model of pahfit/model.py: the Model facade over a features table.     *)
(*                                                                         *)
(* A Python Model object is a record on the heap `models`; its features    *)
(* attribute is a reference into the heap `tables`, so that aliasing of a  *)
(* table by two models is expressible.  Every method is one action; its    *)
(* body is translated statement by statement as a chain of operators on an *)
(* execution context (the frame of the call): once a statement raises, the *)
(* statements after it are skipped.                                        *)
(***************************************************************************)
EXTENDS Integers, Sequences, FiniteSets, TLC

VARIABLES models, tables, files, last, origin, written, nsteps

vars == <<models, tables, files, last, origin, written, nsteps>>

----------------------------------------------------------------------------
(* Bounds of the exploration *)

\* The number of calls and edits of a session.
MaxSteps == 4

----------------------------------------------------------------------------
(* Inputs the callers may pass *)

Values == {0, 1}

Instruments == {"spitzer.irs", "jwst.nirspec"}

Redshifts == {3}

PackFile == "pack.yaml"

SavedFile == "model.ecsv"

FileNames == {PackFile, SavedFile}

\* The kinds of feature, in the order of the groups of param_info.
KindOrder == <<"starlight", "dust_feature", "h2_line", "ion_line", "absorption", "attenuation">>

Kinds == {KindOrder[k] : k \in DOMAIN KindOrder}

KindCode(kind) == CHOOSE k \in DOMAIN KindOrder : KindOrder[k] = kind

EditableColumns == {"wavelength", "fwhm", "power"}

Row(kind, wavelength, fwhm, power) ==
    [kind |-> kind, wavelength |-> wavelength, fwhm |-> fwhm, power |-> power]

\* A Spectrum1D argument; None is the record with none = TRUE.
None == [none |-> TRUE, id |-> 0, uncertainty |-> FALSE]

Spectra == {[none |-> FALSE, id |-> 1, uncertainty |-> u] : u \in BOOLEAN}

\* The attributes of the module astropy.units the code may name.
UnitNames == {"micron", "um", "AA", "Hz"}

----------------------------------------------------------------------------
(* Features.read and Features.write: the table on disk *)

NoFile == [fmt |-> "none", cells |-> <<>>]

\* The feature definitions of the YAML science pack: kind code and wavelength
\* of each feature.
PackContent == [fmt |-> "yaml", cells |-> <<2, 1, 4, 2>>]

RECURSIVE WriteRows(_)
WriteRows(rows) ==
    IF rows = <<>> THEN <<>>
    ELSE <<KindCode(Head(rows).kind), Head(rows).wavelength,
           Head(rows).fwhm, Head(rows).power>> \o WriteRows(Tail(rows))

\* Features.write: the table as a row-major sequence of cells.
FeaturesWrite(rows) == [fmt |-> "table", cells |-> WriteRows(rows)]

RECURSIVE ReadTable(_)
ReadTable(cells) ==
    IF Len(cells) < 4 THEN <<>>
    ELSE <<Row(KindOrder[cells[1]], cells[2], cells[3], cells[4])>>
         \o ReadTable(SubSeq(cells, 5, Len(cells)))

RECURSIVE ReadYaml(_)
ReadYaml(cells) ==
    IF Len(cells) < 2 THEN <<>>
    ELSE <<Row(KindOrder[cells[1]], cells[2], 0, 0)>>
         \o ReadYaml(SubSeq(cells, 3, Len(cells)))

\* Features.read: YAML for a science pack, the table reader otherwise.
FeaturesRead(file) ==
    IF file.fmt = "yaml" THEN ReadYaml(file.cells) ELSE ReadTable(file.cells)

----------------------------------------------------------------------------
(* PAHFITBase: the table as param_info, the instrument's line widths, the  *)
(* initial estimate and the fittable model                                 *)

SelectKind(rows, kind) == SelectSeq(rows, LAMBDA r : r.kind = kind)

\* PAHFITBase.parse_table: one group of features per kind.
parse_table(rows) == [k \in DOMAIN KindOrder |-> SelectKind(rows, KindOrder[k])]

InstrumentRange(instrumentname) ==
    IF instrumentname = "spitzer.irs" THEN {1, 2}
    ELSE IF instrumentname = "jwst.nirspec" THEN {0, 1}
    ELSE {}

InstrumentFwhm(instrumentname, wavelength) ==
    IF instrumentname = "spitzer.irs" THEN 2 ELSE 1

\* PAHFITBase.update_dictionary with update_fwhms=True: the lines outside the
\* instrument's range are dropped, the others get the instrument's width.
update_dictionary(feature_dict, instrumentname) ==
    LET inrange == SelectSeq(feature_dict,
                             LAMBDA r : r.wavelength \in InstrumentRange(instrumentname))
    IN [i \in DOMAIN inrange |->
          [inrange[i] EXCEPT !.fwhm = InstrumentFwhm(instrumentname, inrange[i].wavelength)]]

\* PAHFITBase.estimate_init: the amplitudes are set from the observed flux.
estimate_init(spec, param_info) ==
    [k \in DOMAIN param_info |->
       [i \in DOMAIN param_info[k] |-> [param_info[k][i] EXCEPT !.power = spec.id]]]

RECURSIVE Flatten(_)
Flatten(groups) ==
    IF groups = <<>> THEN <<>> ELSE Head(groups) \o Flatten(Tail(groups))

\* PAHFITBase.model_from_param_info: the compound model, one component per
\* feature.
model_from_param_info(param_info) == Flatten(param_info)

\* LevMarLSQFitter.__call__: the fitted model.
LevMarLSQFitter(astropy_model, spec, maxiter) ==
    [i \in DOMAIN astropy_model |-> [astropy_model[i] EXCEPT !.power = spec.id]]

----------------------------------------------------------------------------
(* The frame of a call: the exception raised so far, the calls made, the   *)
(* object self and the table self.features refers to, and the locals.      *)

Frame(self, rows) ==
    [exc |-> "none", trace |-> <<>>, self |-> self, rows |-> rows,
     param_info |-> <<>>, kludge |-> <<>>, astropy_model |-> <<>>,
     figs |-> 0, printed |-> <<>>]

Raise(c, e) == [c EXCEPT !.exc = e]

Call(c, name) == [c EXCEPT !.trace = Append(@, name)]

\* The name u in fit and guess is the module astropy.units (line 4).
GlobalU == "astropy.units"

\* The name u in plot is a local of the function, because line 187 assigns
\* it; it is unbound until that assignment has run.
LocalU(assigned) == IF assigned THEN "ndarray" ELSE "unbound"

\* spec.spectral_axis.to(u.<unit>).value
spectral_axis_to(c, spec, u, unit) ==
    IF c.exc # "none" THEN c
    ELSE IF spec.none THEN Raise(c, "AttributeError")
    ELSE IF u = "unbound" THEN Raise(c, "UnboundLocalError")
    ELSE IF u # GlobalU \/ unit \notin UnitNames THEN Raise(c, "AttributeError")
    ELSE Call(c, "spectral_axis.to")

\* spec.flux.value
flux_value(c, spec) ==
    IF c.exc # "none" THEN c
    ELSE IF spec.none THEN Raise(c, "AttributeError")
    ELSE c

\* spec.uncertainty.value
uncertainty_value(c, spec) ==
    IF c.exc # "none" THEN c
    ELSE IF spec.none \/ ~spec.uncertainty THEN Raise(c, "AttributeError")
    ELSE c

_kludge_param_info(c) ==
    IF c.exc # "none" THEN c
    ELSE LET p1 == parse_table(c.rows)
             p2 == [p1 EXCEPT ![3] = update_dictionary(p1[3], c.self.instrumentname)]
             p3 == [p2 EXCEPT ![4] = update_dictionary(p2[4], c.self.instrumentname)]
         IN [c EXCEPT !.trace = @ \o <<"parse_table", "update_dictionary", "update_dictionary">>,
                      !.param_info = p3,
                      !.kludge = p3]

\* A conversion that writes the estimate back into the table and returns.
backport_implemented(c) ==
    IF c.exc # "none" THEN c
    ELSE [Call(c, "_backport_param_info") EXCEPT !.rows = Flatten(c.param_info)]

_backport_param_info(c) ==
    IF c.exc # "none" THEN c
    ELSE Raise(Call(c, "_backport_param_info"), "NotImplementedError")

_construct_astropy_model(c) ==
    LET k == _kludge_param_info(c)
    IN IF k.exc # "none" THEN k
       ELSE [Call(k, "model_from_param_info") EXCEPT
               !.astropy_model = model_from_param_info(k.param_info)]

_parse_astropy_result(c) ==
    IF c.exc # "none" THEN c
    ELSE Raise(Call(c, "_parse_astropy_result"), "NotImplementedError")

\* PAHFITBase.estimate_init(obs_x, obs_y, param_info), line 123
call_estimate_init(c, spec) ==
    IF c.exc # "none" THEN c
    ELSE [Call(c, "estimate_init") EXCEPT !.param_info = estimate_init(spec, c.param_info)]

\* guess without the estimate: the table is parsed and handed back as is.
guess_no_estimate(c, spec) ==
    LET c1 == spectral_axis_to(c, spec, GlobalU, "micron")
        c2 == flux_value(c1, spec)
        c3 == _kludge_param_info(c2)
    IN _backport_param_info(c3)

guess(c, spec) ==
    LET c1 == spectral_axis_to(c, spec, GlobalU, "micron")
        c2 == flux_value(c1, spec)
        c3 == _kludge_param_info(c2)
        c4 == call_estimate_init(c3, spec)
    IN _backport_param_info(c4)

\* self.astropy_result = fit(astropy_model, x, y, weights=w, ...), lines 149-157
run_fitter(c, spec, maxiter) ==
    IF c.exc # "none" THEN c
    ELSE [Call(c, "LevMarLSQFitter") EXCEPT
            !.self.has_result = TRUE,
            !.self.astropy_result = LevMarLSQFitter(c.astropy_model, spec, maxiter)]

\* print(fit.fit_info["message"]), lines 158-159
print_message(c, verbose) ==
    IF c.exc # "none" \/ ~verbose THEN c
    ELSE [c EXCEPT !.printed = Append(@, [what |-> "fit_info", value |-> <<>>])]

fit(c, spec, maxiter, verbose) ==
    LET c1 == _construct_astropy_model(c)
        c2 == spectral_axis_to(c1, spec, GlobalU, "micon")
        c3 == flux_value(c2, spec)
        c4 == uncertainty_value(c3, spec)
        c5 == run_fitter(c4, spec, maxiter)
        c6 == print_message(c5, verbose)
    IN _parse_astropy_result(c6)

info(c) ==
    IF ~c.self.has_result THEN Raise(c, "AttributeError")
    ELSE [c EXCEPT !.printed =
            Append(@, [what |-> "astropy_result", value |-> c.self.astropy_result])]

\* plt.subplots(...), lines 177-183: a new figure
plt_subplots(c) ==
    IF c.exc # "none" THEN c
    ELSE [Call(c, "plt.subplots") EXCEPT !.figs = @ + 1]

\* PAHFITBase.plot(axs, x, y, u, astropy_model); fig.subplots_adjust(hspace=0)
render(c) ==
    IF c.exc # "none" THEN c
    ELSE Call(Call(c, "PAHFITBase.plot"), "fig.subplots_adjust")

\* A plot that first writes the instrument's line widths into the table.
plot_in_place(c, spec) ==
    LET c0 == [c EXCEPT !.rows =
                 [i \in DOMAIN c.rows |->
                    [c.rows[i] EXCEPT !.fwhm = InstrumentFwhm(c.self.instrumentname, c.rows[i].wavelength)]]]
        c1 == plt_subplots(c0)
        c2 == spectral_axis_to(c1, spec, LocalU(FALSE), "micon")
    IN c2

plot(c, spec) ==
    LET c1 == plt_subplots(c)
        c2 == spectral_axis_to(c1, spec, LocalU(FALSE), "micon")
        c3 == flux_value(c2, spec)
        c4 == uncertainty_value(c3, spec)
        c5 == _construct_astropy_model(c4)
    IN render(c5)

----------------------------------------------------------------------------
(* Construction, copy and save *)

\* Model.__init__, lines 59-61; astropy_result is not set there.
NewModel(features, instrumentname, redshift) ==
    [features |-> features, instrumentname |-> instrumentname,
     redshift |-> redshift, has_result |-> FALSE, astropy_result |-> <<>>]

\* What a class method hands to the constructor, or the exception it raised.
Loaded(exc, rows, instrumentname, redshift) ==
    [exc |-> exc, rows |-> rows, instrumentname |-> instrumentname, redshift |-> redshift]

from_yaml(fs, pack_file, instrumentname, redshift) ==
    IF fs[pack_file] = NoFile
    THEN Loaded("FileNotFoundError", <<>>, instrumentname, redshift)
    ELSE Loaded("none", FeaturesRead(fs[pack_file]), instrumentname, redshift)

\* A reload that mocks the metadata with other values.
from_saved_other_mock(fs, saved_model_file) ==
    IF fs[saved_model_file] = NoFile
    THEN Loaded("FileNotFoundError", <<>>, "", 3)
    ELSE Loaded("none", FeaturesRead(fs[saved_model_file]), "spitzer.irs", 3)

from_saved(fs, saved_model_file) ==
    IF fs[saved_model_file] = NoFile
    THEN Loaded("FileNotFoundError", <<>>, "bla", 0)
    ELSE Loaded("none", FeaturesRead(fs[saved_model_file]), "bla", 0)

\* A copy by copy.copy: the new object refers to the same table.
shallow_copy(ms, ts, i) == [models |-> Append(ms, ms[i]), tables |-> ts]

\* copy.deepcopy(self): a new object and a new table with the same values.
copy(ms, ts, i) ==
    [models |-> Append(ms, [ms[i] EXCEPT !.features = Len(ts) + 1]),
     tables |-> Append(ts, ts[ms[i].features])]

\* A save that loses the last row of the table.
save_truncated(rows, fs, fn) ==
    [fs EXCEPT ![fn] = FeaturesWrite(SubSeq(rows, 1, Len(rows) - 1))]

\* self.features.write(fn)
save(rows, fs, fn) == [fs EXCEPT ![fn] = FeaturesWrite(rows)]

----------------------------------------------------------------------------
(* The state machine *)

Rows(m) == tables[models[m].features]

Snapshot(m) ==
    [rows |-> Rows(m), instrumentname |-> models[m].instrumentname,
     redshift |-> models[m].redshift]

NoSnapshot == [rows |-> <<>>, instrumentname |-> "", redshift |-> 0]

\* The record of the last call: what was called on which object, how it
\* ended and what it did on the way.
Record(op, m, spec, fn, exc, trace, ret, pre, kludge, printed, figs) ==
    [op |-> op, self |-> m, spec |-> spec, fn |-> fn, exc |-> exc, trace |-> trace,
     ret |-> ret, pre |-> pre, kludge |-> kludge, printed |-> printed, figs |-> figs]

\* Where an object comes from and the values it was constructed with.
Origin(via, parent, snap) ==
    [via |-> via, parent |-> parent, rows |-> snap.rows,
     instrumentname |-> snap.instrumentname, redshift |-> snap.redshift,
     edited |-> FALSE, fit_called |-> FALSE, failed |-> FALSE]

Init ==
    /\ models = <<>>
    /\ tables = <<>>
    /\ files = [f \in FileNames |-> IF f = PackFile THEN PackContent ELSE NoFile]
    /\ last = Record("none", 0, None, "", "none", <<>>, 0, NoSnapshot, <<>>, <<>>, 0)
    /\ origin = <<>>
    /\ written = [f \in FileNames |-> NoSnapshot]
    /\ nsteps = 0

\* One more call of the API, or one more edit of a table by the user.
Tick ==
    /\ nsteps < MaxSteps
    /\ nsteps' = nsteps + 1

\* The constructor after a class method: a new object and its table.
Construct(op, fn, l) ==
    /\ Tick
    /\ IF l.exc = "none"
       THEN /\ tables' = Append(tables, l.rows)
            /\ models' = Append(models,
                                NewModel(Len(tables) + 1, l.instrumentname, l.redshift))
            /\ origin' = Append(origin,
                                Origin(op, 0, [rows |-> l.rows,
                                               instrumentname |-> l.instrumentname,
                                               redshift |-> l.redshift]))
       ELSE UNCHANGED <<tables, models, origin>>
    /\ last' = Record(op, 0, None, fn, l.exc, <<"Features.read">>,
                      IF l.exc = "none" THEN Len(models) + 1 ELSE 0,
                      NoSnapshot, <<>>, <<>>, 0)
    /\ UNCHANGED <<files, written>>

FromYaml(fn, instrumentname, redshift) ==
    /\ Construct("from_yaml", fn, from_yaml(files, fn, instrumentname, redshift))

FromSaved(fn) ==
    /\ Construct("from_saved", fn, from_saved(files, fn))

\* The end of a method call on models[m]: the frame's self and table are
\* the object's state, whether the call returned or raised.
Finish(op, m, spec, c) ==
    /\ Tick
    /\ models' = [models EXCEPT ![m] = c.self]
    /\ tables' = [tables EXCEPT ![c.self.features] = c.rows]
    /\ last' = Record(op, m, spec, "", c.exc, c.trace, 0, Snapshot(m), c.kludge, c.printed, c.figs)
    /\ origin' = [origin EXCEPT
                    ![m].fit_called = @ \/ op = "fit",
                    ![m].failed = @ \/ (op \in {"guess", "fit"} /\ c.exc # "none")]
    /\ UNCHANGED <<files, written>>

Guess(m, spec) ==
    Finish("guess", m, spec, guess(Frame(models[m], Rows(m)), spec))

Fit(m, spec, maxiter, verbose) ==
    Finish("fit", m, spec, fit(Frame(models[m], Rows(m)), spec, maxiter, verbose))

Plot(m, spec) ==
    Finish("plot", m, spec, plot(Frame(models[m], Rows(m)), spec))

Info(m) ==
    Finish("info", m, None, info(Frame(models[m], Rows(m))))

Copy(m) ==
    /\ Tick
    /\ LET h == copy(models, tables, m)
       IN /\ models' = h.models
          /\ tables' = h.tables
          /\ origin' = Append(origin, [Origin("copy", m, Snapshot(m)) EXCEPT
                                         !.fit_called = origin[m].fit_called])
          /\ last' = Record("copy", m, None, "", "none", <<"copy.deepcopy">>,
                            Len(h.models), Snapshot(m), <<>>, <<>>, 0)
    /\ UNCHANGED <<files, written>>

Save(m, fn) ==
    /\ Tick
    /\ files' = save(Rows(m), files, fn)
    /\ written' = [written EXCEPT ![fn] = Snapshot(m)]
    /\ last' = Record("save", m, None, fn, "none", <<"Features.write">>, 0,
                      Snapshot(m), <<>>, <<>>, 0)
    /\ UNCHANGED <<models, tables, origin>>

\* The user changes a number of the table through model.features.
EditFeature(m, i, col, v) ==
    /\ Tick
    /\ Rows(m)[i][col] # v
    /\ tables' = [tables EXCEPT ![models[m].features][i][col] = v]
    /\ origin' = [origin EXCEPT ![m].edited = TRUE]
    /\ last' = Record("edit", m, None, "", "none", <<>>, 0, Snapshot(m), <<>>, <<>>, 0)
    /\ UNCHANGED <<models, files, written>>

Next ==
    \/ \E fn \in FileNames, i \in Instruments, z \in Redshifts : FromYaml(fn, i, z)
    \/ \E fn \in FileNames : FromSaved(fn)
    \/ \E m \in DOMAIN models, s \in Spectra : Guess(m, s)
    \/ \E m \in DOMAIN models, s \in Spectra, v \in BOOLEAN : Fit(m, s, 1000, v)
    \/ \E m \in DOMAIN models, s \in Spectra \cup {None} : Plot(m, s)
    \/ \E m \in DOMAIN models : Info(m)
    \/ \E m \in DOMAIN models : Copy(m)
    \/ \E m \in DOMAIN models : Save(m, SavedFile)
    \/ \E m \in DOMAIN models : \E i \in DOMAIN Rows(m), col \in EditableColumns, v \in Values :
         EditFeature(m, i, col, v)

Spec == Init /\ [][Next]_vars

----------------------------------------------------------------------------
(* Properties *)

\* The param_info a call on a model in state snap has to derive: the table
\* parsed, with the widths of the lines of groups 2 and 3 resolved.
ExpectedParamInfo(snap) ==
    LET p == parse_table(snap.rows)
    IN [k \in DOMAIN p |->
          IF k \in {3, 4} THEN update_dictionary(p[k], snap.instrumentname) ELSE p[k]]

CopyEqual ==
    last.op = "copy" =>
        /\ Snapshot(last.ret) = last.pre
        /\ Snapshot(last.self) = last.pre
        /\ models[last.ret].features # models[last.self].features

EditIsolated ==
    last'.op = "edit" /\ nsteps' = nsteps + 1 =>
        \A j \in DOMAIN models \ {last'.self} :
            tables'[models'[j].features] = tables[models[j].features]

\* C1: copy() returns a model equal in value to the original (features rows,
\* instrumentname, redshift) that shares no table with it: an edit of one
\* model's table leaves the rows of every other model unchanged.
C1_CopyIndependent == [](CopyEqual) /\ [][EditIsolated]_vars

\* A copy was edited and the model it was copied from kept its rows.
C1_Witness ==
    /\ last.op = "edit"
    /\ origin[last.self].parent # 0
    /\ Rows(origin[last.self].parent) = origin[last.self].rows
    /\ Rows(last.self) # Rows(origin[last.self].parent)

C4_FitStoresResultThenFails ==
    last.op = "fit" =>
        /\ last.exc = "NotImplementedError"
        /\ models[last.self].has_result
        /\ last.trace = <<"parse_table", "update_dictionary", "update_dictionary",
                          "model_from_param_info", "spectral_axis.to",
                          "LevMarLSQFitter", "_parse_astropy_result">>

\* C5: plot leaves the features table, instrumentname and redshift as they
\* were, whether it returns or raises, with a spectrum or with none.
C5_PlotDoesNotMutate ==
    last.op = "plot" => Snapshot(last.self) = last.pre

\* A plot with a spectrum on a table the user has edited.
C5_Witness ==
    /\ last.op = "plot"
    /\ ~last.spec.none
    /\ origin[last.self].edited
    /\ last.figs = 1

\* C6: plot, with a spectrum or with none, builds the fittable model, renders
\* it with PAHFITBase.plot and completes without raising.
C6_PlotCompletes ==
    last.op = "plot" =>
        /\ last.exc = "none"
        /\ last.trace = <<"plt.subplots", "spectral_axis.to", "parse_table",
                          "update_dictionary", "update_dictionary",
                          "model_from_param_info", "PAHFITBase.plot",
                          "fig.subplots_adjust">>

\* C7: a model made by from_saved has instrumentname "bla" and redshift 0.0,
\* whatever the model that wrote the file had; its rows are those of the file.
C7_ReloadHasPlaceholderMetadata ==
    (last.op = "from_saved" /\ last.exc = "none") =>
        /\ models[last.ret].instrumentname = "bla"
        /\ models[last.ret].redshift = 0
        /\ Rows(last.ret) = FeaturesRead(files[last.fn])

\* The file reloaded was written by a model with other metadata.
C7_Witness ==
    /\ last.op = "from_saved"
    /\ last.exc = "none"
    /\ written[last.fn].instrumentname \in Instruments
    /\ written[last.fn].redshift # 0

\* C8: each guess, fit and plot call derives param_info from the features
\* table and instrumentname as they are at the time of the call.
C8_EditsReflectedAtNextCall ==
    last.op \in {"guess", "fit", "plot"} => last.kludge = ExpectedParamInfo(last.pre)

\* C9: after at least one fit call on the model, info() prints the raw result
\* stored by the fit and does not raise.
C9_InfoPrintsLastResult ==
    (last.op = "info" /\ origin[last.self].fit_called) =>
        /\ last.exc = "none"
        /\ last.printed = <<[what |-> "astropy_result",
                             value |-> models[last.self].astropy_result]>>

====
